---- MODULE Spec2Model ----
(***************************************************************************)
(* Model of the resource/port/quota tracker of src/ai_lab_backend.py       *)
(* (class ResourceManager and the Flask handlers that drive it) together   *)
(* with the part of the Docker runtime the handlers observe: container     *)
(* identity (id and name), status and host port binding.                   *)
(*                                                                         *)
(* In Spec every handler is one atomic action; the handler's inputs and the *)
(* collaborators' answers (GPU probe, free memory, bindable host ports,    *)
(* runtime failures) are drawn with \E. The Flask server runs handlers on  *)
(* threads and ResourceManager takes no lock: SpecQuotaRace and            *)
(* SpecPortRace split create and allocate_port at the points where another *)
(* thread can run in between.                                              *)
(***************************************************************************)
EXTENDS Integers, Sequences, FiniteSets, TLC

\* ------------------------------------------------------------------ bounds
\* number of container ids the runtime ever hands out
MaxContainers == 3
\* last value of the wall clock, in seconds (int(datetime.now().timestamp()))
MaxTime == 1
\* length of the port scan; stands for max_attempts=100 of allocate_port, and
\* is long enough for the scan from 8888 to reach the configured multi-gpu
\* port 8890, as range(8888, 8988) does
ScanLen == 3
\* largest number of GPUs the host probe may report as available
MaxGpus == 2
\* number of requests in which a collaborator call (runtime, filesystem) may
\* fail for a reason of its own
MaxFaults == 1
\* number of requests served in one behaviour
MaxRequests == 3
\* number of direct ResourceManager calls made in one behaviour
MaxCalls == 3
\* longest list of tracked identifiers a usage query is tried on
MaxListed == 2
\* number of calls made in one behaviour of a specification that tries one
\* method on drawn states (a usage query changes nothing a later one reads)
MaxQueries == 1
\* number of requests the server handles at the same time
MaxThreads == 2

\* --------------------------------------------------------------- constants
JupyterStart == 8888
VscodeStart == 8080
MultiGpuHostPort == 8890

Users == {"alice", "bob"}
\* request.json.get('user_id') when the field is missing: falsy
NoUser == ""
UserInputs == Users \cup {NoUser}

RESOURCE_QUOTAS ==
  [default    |-> [max_gpus |-> 1, max_memory_gb |-> 8,  max_cpu_cores |-> 2,
                   max_environments |-> 2, max_runtime_hours |-> 24],
   premium    |-> [max_gpus |-> 2, max_memory_gb |-> 16, max_cpu_cores |-> 4,
                   max_environments |-> 4, max_runtime_hours |-> 48],
   enterprise |-> [max_gpus |-> 4, max_memory_gb |-> 32, max_cpu_cores |-> 8,
                   max_environments |-> 8, max_runtime_hours |-> 168]]

\* tier names a request may carry; "gold" is not a key of RESOURCE_QUOTAS
TierInputs == {"default", "premium", "gold"}

\* ENVIRONMENT_CONFIGS: host port key, container port, resource requirements
ENVIRONMENT_CONFIGS ==
  [x \in {"pytorch-jupyter", "tensorflow-jupyter", "vscode", "multi-gpu"} |->
     CASE x = "pytorch-jupyter" ->
            [host_port |-> 8888, container_port |-> 8888, min_memory_gb |-> 4,
             gpu_required |-> TRUE, min_gpus |-> 1]
       [] x = "tensorflow-jupyter" ->
            [host_port |-> 8889, container_port |-> 8888, min_memory_gb |-> 4,
             gpu_required |-> TRUE, min_gpus |-> 1]
       [] x = "vscode" ->
            [host_port |-> 8080, container_port |-> 8080, min_memory_gb |-> 2,
             gpu_required |-> FALSE, min_gpus |-> 1]
       [] x = "multi-gpu" ->
            [host_port |-> MultiGpuHostPort, container_port |-> 8888,
             min_memory_gb |-> 8, gpu_required |-> TRUE, min_gpus |-> 2]]

\* env types a request may carry; "custom" is not a key of ENVIRONMENT_CONFIGS
EnvTypeInputs == {"pytorch-jupyter", "vscode", "multi-gpu", "custom"}

\* "jupyter" in env_type
HasJupyter(t) == t \in {"pytorch-jupyter", "tensorflow-jupyter"}

\* any(x in container.name for x in ['jupyter','vscode','pytorch','tensorflow'])
\* for the name "ai-lab-<env_type>-<timestamp>"
CleanupNameMatch(t) == t \in {"pytorch-jupyter", "tensorflow-jupyter", "vscode"}

\* available system memory in GB, as psutil may report it
MemInputs == {1, 3, 8}
\* GPUs with memoryUtil < 0.9, as GPUtil may report them; -1: the probe raises
GpuInputs == (0..MaxGpus) \cup {-1}

\* ------------------------------------------------------------- identifiers
\* A container is addressed by its name or by its id; docker resolves both.
Name(t, ts) == <<"name", t, ts>>
Id(k) == <<"id", "-", k>>
NoIdent == <<"none", "-", 0>>
Slots == 1..MaxContainers

Absent ==
  [name |-> NoIdent, etype |-> "-", status |-> "absent", hostPort |-> 0,
   cport |-> 0, creator |-> NoUser, ok |-> FALSE]

VARIABLES
  docker_client,            \* TRUE iff docker.from_env() succeeded at start-up
  containers,               \* the runtime: slot -> container record
  next_id,                  \* number of container ids handed out so far
  now,                      \* wall clock, seconds
  user_environments,        \* ordered dict: sequence of [uid, envs]
  environment_start_times,  \* the keys of the dict identifier -> datetime
  allocated_ports,          \* set of reserved host ports
  faults,                   \* collaborator failures injected so far
  requests,                 \* requests served so far
  returned,                 \* ports allocate_port returned since the last
                            \* release_port call, in order
  last,                     \* the request just served and its outcome
  threads                   \* the calls in flight: position and local variables

vars == <<docker_client, containers, next_id, now, user_environments,
          environment_start_times, allocated_ports, faults, requests, returned, last,
          threads>>

\* the handler threads, and a thread that has not been given a call
ThreadIds == 1..MaxThreads

IdleThread ==
  [pc |-> "idle", uid |-> NoUser, etype |-> "-", tier |-> "-", start |-> 0, port |-> 0,
   name |-> NoIdent, result |-> "-"]

NoThreads == [t \in ThreadIds |-> IdleThread]

tracker == <<user_environments, environment_start_times, allocated_ports>>

\* ----------------------------------------------------- ordered-dict helpers
Keys(ue) == {ue[i].uid : i \in 1..Len(ue)}
IndexOf(ue, u) == CHOOSE i \in 1..Len(ue) : ue[i].uid = u
EnvsOf(ue, u) == IF u \in Keys(ue) THEN ue[IndexOf(ue, u)].envs ELSE <<>>
SetEnvs(ue, u, envs) ==
  IF u \in Keys(ue)
    THEN [ue EXCEPT ![IndexOf(ue, u)].envs = envs]
    ELSE Append(ue, [uid |-> u, envs |-> envs])
Elems(s) == {s[i] : i \in 1..Len(s)}
RemoveFirst(s, x) ==
  LET i == CHOOSE j \in 1..Len(s) : s[j] = x /\ \A h \in 1..(j - 1) : s[h] # x
  IN  SubSeq(s, 1, i - 1) \o SubSeq(s, i + 1, Len(s))

\* ------------------------------------------------ ResourceManager (methods)
\* check_user_quota with the comparison weakened from >= to >
check_user_quota_gt(ue, u, tier) ==
  LET ue1 == IF u \in Keys(ue) THEN ue ELSE SetEnvs(ue, u, <<>>)
  IN  IF tier \notin DOMAIN RESOURCE_QUOTAS
        THEN [ue |-> ue1, raised |-> TRUE, ok |-> FALSE]
        ELSE [ue |-> ue1, raised |-> FALSE,
              ok |-> ~(Len(EnvsOf(ue1, u)) > RESOURCE_QUOTAS[tier].max_environments)]

\* check_user_quota that ignores quota_type and always applies the default limit
check_user_quota_default_limit(ue, u, tier) ==
  LET ue1 == IF u \in Keys(ue) THEN ue ELSE SetEnvs(ue, u, <<>>)
  IN  IF tier \notin DOMAIN RESOURCE_QUOTAS
        THEN [ue |-> ue1, raised |-> TRUE, ok |-> FALSE]
        ELSE [ue |-> ue1, raised |-> FALSE,
              ok |-> ~(Len(EnvsOf(ue1, u)) >= RESOURCE_QUOTAS["default"].max_environments)]

\* check_user_quota: creates the user's list, then looks the tier up (KeyError
\* for an unknown tier), then compares the length of the list with the limit.
check_user_quota(ue, u, tier) ==
  LET ue1 == IF u \in Keys(ue) THEN ue ELSE SetEnvs(ue, u, <<>>)
  IN  IF tier \notin DOMAIN RESOURCE_QUOTAS
        THEN [ue |-> ue1, raised |-> TRUE, ok |-> FALSE]
        ELSE [ue |-> ue1, raised |-> FALSE,
              ok |-> ~(Len(EnvsOf(ue1, u)) >= RESOURCE_QUOTAS[tier].max_environments)]

\* track_environment: append to the user's list, stamp the start time (no
\* modelled operation reads the stamp, so only the key is kept).
track_environment(ue, st, u, c) ==
  [ue |-> SetEnvs(ue, u, Append(EnvsOf(ue, u), c)), st |-> st \cup {c}]

user_owns_environment(ue, u, c) ==
  IF u \notin Keys(ue) THEN FALSE ELSE c \in Elems(EnvsOf(ue, u))

\* get_environment_owner: first user, in dict order, whose list holds c
Owners(ue, c) == {i \in 1..Len(ue) : c \in Elems(ue[i].envs)}
FirstOwnerIndex(ue, c) == CHOOSE i \in Owners(ue, c) : \A j \in Owners(ue, c) : i <= j
get_environment_owner(ue, c) ==
  IF Owners(ue, c) = {} THEN NoUser ELSE ue[FirstOwnerIndex(ue, c)].uid

\* untrack_environment: list.remove raises ValueError when c is not in the list
untrack_environment(ue, st, u, c) ==
  IF u \in Keys(ue) /\ c \notin Elems(EnvsOf(ue, u))
    THEN [ue |-> ue, st |-> st, raised |-> TRUE]
    ELSE [ue |-> IF u \in Keys(ue) THEN SetEnvs(ue, u, RemoveFirst(EnvsOf(ue, u), c))
                 ELSE ue,
          st |-> st \ {c},
          raised |-> FALSE]

\* the loop of allocate_port: first port of the range that is not reserved,
\* not published by a listed container and bindable; 0 when the range is
\* exhausted (the method raises)
RECURSIVE ScanPorts(_, _, _, _, _)
ScanPorts(port, stop, ap, used_docker_ports, unbindable) ==
  IF port >= stop THEN 0
  ELSE IF port \in ap THEN ScanPorts(port + 1, stop, ap, used_docker_ports, unbindable)
  ELSE IF port \in used_docker_ports
         THEN ScanPorts(port + 1, stop, ap, used_docker_ports, unbindable)
  ELSE IF port \in unbindable
         THEN ScanPorts(port + 1, stop, ap, used_docker_ports, unbindable)
  ELSE port

\* allocate_port that returns the port it found but forgets to reserve it
allocate_port_unreserved(ap, start_port, max_attempts, used_docker_ports, unbindable) ==
  LET p == ScanPorts(start_port, start_port + max_attempts, ap,
                     used_docker_ports, unbindable)
  IN  IF p = 0 THEN [port |-> 0, ap |-> ap, raised |-> TRUE]
      ELSE [port |-> p, ap |-> ap, raised |-> FALSE]

\* allocate_port that reserves every port it probes, so that a scan that
\* finds nothing leaves the whole range reserved
allocate_port_reserves_probed(ap, start_port, max_attempts, used_docker_ports, unbindable) ==
  LET p == ScanPorts(start_port, start_port + max_attempts, ap,
                     used_docker_ports, unbindable)
  IN  IF p = 0
        THEN [port |-> 0, ap |-> ap \cup (start_port..(start_port + max_attempts - 1)),
              raised |-> TRUE]
        ELSE [port |-> p, ap |-> ap \cup (start_port..p), raised |-> FALSE]

\* allocate_port without the test bind: it takes the first port that is
\* neither reserved nor listed by the runtime
allocate_port_without_bind(ap, start_port, max_attempts, used_docker_ports, unbindable) ==
  LET p == ScanPorts(start_port, start_port + max_attempts, ap, used_docker_ports, {})
  IN  IF p = 0 THEN [port |-> 0, ap |-> ap, raised |-> TRUE]
      ELSE [port |-> p, ap |-> ap \cup {p}, raised |-> FALSE]

allocate_port(ap, start_port, max_attempts, used_docker_ports, unbindable) ==
  LET p == ScanPorts(start_port, start_port + max_attempts, ap,
                     used_docker_ports, unbindable)
  IN  IF p = 0 THEN [port |-> 0, ap |-> ap, raised |-> TRUE]
      ELSE [port |-> p, ap |-> ap \cup {p}, raised |-> FALSE]

\* release_port that leaves the reservation in place
release_port_keeps(ap, port) == ap

release_port(ap, port) == ap \ {port}

\* ------------------------------------------------------ the docker runtime
Exists(k) == containers[k].status # "absent"
\* docker_client.containers.get(env_id): by id or by name
Resolve(e) == {k \in Slots : Exists(k) /\ (Id(k) = e \/ containers[k].name = e)}
Target(e) == CHOOSE k \in Resolve(e) : TRUE
\* a host port is published while its container is running or paused
Publishing(k) == containers[k].status \in {"running", "paused"}
PortBoundByOther(p, k) ==
  \E j \in Slots : j # k /\ Publishing(j) /\ containers[j].hostPort = p
\* containers.list(): the running (and paused) containers; their HostPort values
UsedDockerPorts == {containers[k].hostPort : k \in {j \in Slots : Publishing(j)}}
\* container.attrs['NetworkSettings']['Ports'] as read by delete and cleanup:
\* the binding is listed only while the container publishes it; the handlers
\* look for the keys '8888/tcp' and '8080/tcp' only
DiscoveredPort(k) ==
  IF Publishing(k) /\ containers[k].cport \in {8888, 8080}
    THEN containers[k].hostPort ELSE 0

\* whether a collaborator call of this request may fail for a reason of its own
FaultChoices == IF faults < MaxFaults THEN BOOLEAN ELSE {FALSE}

\* the answer of get_user_resource_usage for a user the tracker does not know
ZeroUsage ==
  [environments |-> 0, running_environments |-> 0, paused_environments |-> 0,
   total_memory_gb |-> 0, total_cpu_cores |-> 0, total_gpus |-> 0]

\* the runtime answers of a request that queries none
NoInput == [probe |-> <<>>, memory |-> <<>>, cores |-> 0, gpus |-> 0]

\* the request just served
Event(op, uid, env, result, code, calls, port, cid) ==
  [op |-> op, uid |-> uid, env |-> env, tier |-> "-", etype |-> "-",
   result |-> result, code |-> code, calls |-> calls, allocated |-> 0,
   port |-> port, cid |-> cid, usage |-> ZeroUsage, input |-> NoInput]

\* ------------------------------------------------------------------ create
\* check_resource_availability(env_type, user_quota)
check_resource_availability(etype, gpus, mem) ==
  LET req == ENVIRONMENT_CONFIGS[etype]
  IN  IF ~docker_client THEN "DockerUnavailable"
      ELSE IF req.gpu_required /\ gpus = -1 THEN "GpuProbeError"
      ELSE IF req.gpu_required /\ gpus < req.min_gpus THEN "ResourceUnavailable"
      ELSE IF mem < req.min_memory_gb THEN "ResourceUnavailable"
      ELSE "ok"

\* what the probes of check_resource_availability can answer for a type
AvailabilityAnswers(etype) ==
  {check_resource_availability(etype, gpus, mem) : gpus \in GpuInputs, mem \in MemInputs}

\* the port selection of _create_environment_core: a scanned port for vscode
\* and the jupyter types, the configured host port for every other type
SelectPort(etype, unbindable) ==
  IF etype = "vscode"
    THEN allocate_port(allocated_ports, VscodeStart, ScanLen, UsedDockerPorts, unbindable)
  ELSE IF HasJupyter(etype)
    THEN allocate_port(allocated_ports, JupyterStart, ScanLen, UsedDockerPorts, unbindable)
  ELSE [port |-> ENVIRONMENT_CONFIGS[etype].host_port, ap |-> allocated_ports,
        raised |-> FALSE]

\* the port the scan handed out, 0 for a type with a configured port
AllocatedBy(etype, sel) == IF etype = "vscode" \/ HasJupyter(etype) THEN sel.port ELSE 0

\* the range allocate_port scans for a type (empty for a configured port)
TypeRange(etype) ==
  IF etype = "vscode" THEN VscodeStart..(VscodeStart + ScanLen - 1)
  ELSE IF HasJupyter(etype) THEN JupyterStart..(JupyterStart + ScanLen - 1)
  ELSE {}

\* what the port selection can answer, over every set of host ports on which
\* the test bind fails
PortAnswers(etype) == {SelectPort(etype, unbindable) : unbindable \in SUBSET TypeRange(etype)}

\* except Exception as container_error: release_port(host_port)
ReleaseOnRunFailure(ap, host_port) == release_port(ap, host_port)

\* docker_client.containers.run(...): "create_fails" leaves nothing behind,
\* "start_fails" leaves the container in status 'created'. A name that is taken
\* makes the create fail; a host port published by another container makes the
\* start fail.
RunOutcome(run, name, host_port) ==
  IF \E k \in Slots : Exists(k) /\ containers[k].name = name THEN "create_fails"
  ELSE IF run = "ok" /\ PortBoundByOther(host_port, 0) THEN "start_fails"
  ELSE run

NewContainer(u, etype, host_port, outcome) ==
  [name |-> Name(etype, now), etype |-> etype,
   status |-> IF outcome = "ok" THEN "running" ELSE "created",
   hostPort |-> host_port, cport |-> ENVIRONMENT_CONFIGS[etype].container_port,
   creator |-> u, ok |-> (outcome = "ok")]

\* the state a create request leaves, and the (result, status) it returns
CreateReturns(u, etype, tier, ue, st, ap, cs, id, fault, ret, result, code, calls, allocated, port, cid) ==
  /\ id <= MaxContainers
  /\ returned' = ret
  /\ requests' = requests + 1
  /\ user_environments' = ue
  /\ environment_start_times' = st
  /\ allocated_ports' = ap
  /\ containers' = cs
  /\ next_id' = id
  /\ faults' = IF fault THEN faults + 1 ELSE faults
  /\ last' = [op |-> "create", uid |-> u, env |-> NoIdent, tier |-> tier,
              etype |-> etype, result |-> result, code |-> code, calls |-> calls,
              allocated |-> allocated, port |-> port, cid |-> cid,
              usage |-> ZeroUsage, input |-> NoInput]
  /\ UNCHANGED <<docker_client, now, threads>>

\* a create that selects its port before the checks and returns without
\* releasing it
CreateRejectsAfterPort(u, etype, tier, ue, result, code) ==
  CreateReturns(u, etype, tier, ue, environment_start_times,
                IF etype \in DOMAIN ENVIRONMENT_CONFIGS
                  THEN SelectPort(etype, {}).ap ELSE allocated_ports,
                containers, next_id, FALSE, returned, result, code, <<>>, 0, 0, 0)

\* a create request that returns before the port selection
CreateRejects(u, etype, tier, ue, result, code) ==
  CreateReturns(u, etype, tier, ue, environment_start_times, allocated_ports,
                containers, next_id, FALSE, returned, result, code, <<>>, 0, 0, 0)

\* the try block of _create_environment_core from the port selection on
CreateFromPort(u, etype, tier, ue, sel) ==
  LET alloc == AllocatedBy(etype, sel)
      k == next_id + 1
      name == Name(etype, now)
      got == IF alloc # 0 THEN Append(returned, alloc) ELSE returned
  IN
  IF sel.raised
    THEN CreateReturns(u, etype, tier, ue, environment_start_times, sel.ap, containers,
                       next_id, FALSE, returned, "PortExhausted", 500, <<>>, 0, 0, 0)
  ELSE
    \* data_manager.get_user_data_path(user_id) raises: outside the inner try
    \/ /\ TRUE \in FaultChoices
       /\ CreateReturns(u, etype, tier, ue, environment_start_times, sel.ap, containers,
                        next_id, TRUE, got, "DataPathError", 500, <<>>, alloc, sel.port, 0)
    \/ \E run \in {"ok"} \cup {r \in {"create_fails", "start_fails"} : TRUE \in FaultChoices} :
         LET outcome == RunOutcome(run, name, sel.port) IN
         IF outcome = "create_fails"
           THEN CreateReturns(u, etype, tier, ue, environment_start_times,
                              ReleaseOnRunFailure(sel.ap, sel.port), containers, next_id,
                              run # "ok", <<>>, "RunError", 500, <<"run">>, alloc, sel.port, 0)
         ELSE IF outcome = "start_fails"
           THEN CreateReturns(u, etype, tier, ue, environment_start_times,
                              ReleaseOnRunFailure(sel.ap, sel.port),
                              [containers EXCEPT ![k] = NewContainer(u, etype, sel.port, outcome)],
                              k, run # "ok", <<>>, "RunError", 500, <<"run">>, alloc, sel.port, k)
         ELSE
           LET tr == track_environment(ue, environment_start_times, u, name)
           IN  CreateReturns(u, etype, tier, tr.ue, tr.st, sel.ap,
                             [containers EXCEPT ![k] = NewContainer(u, etype, sel.port, outcome)],
                             k, FALSE, got, "ok", 200, <<"run">>, alloc, sel.port, k)

\* _create_environment_core(env_type, user_id, user_quota), as called by
\* POST /api/environments/create; "KeyError" is the exception that leaves the
\* core when the tier is unknown
create_environment(u, etype, tier) ==
  IF etype \notin DOMAIN ENVIRONMENT_CONFIGS
    THEN CreateRejects(u, etype, tier, user_environments, "InvalidType", 400)
  ELSE
  LET q == check_user_quota(user_environments, u, tier) IN
  IF q.raised THEN CreateRejects(u, etype, tier, q.ue, "KeyError", 500)
  ELSE IF ~q.ok THEN CreateRejects(u, etype, tier, q.ue, "QuotaExceeded", 400)
  ELSE
    \E avail \in AvailabilityAnswers(etype) :
      IF avail # "ok" THEN CreateRejects(u, etype, tier, q.ue, avail, 400)
      ELSE IF ~docker_client
        THEN CreateRejects(u, etype, tier, q.ue, "DockerUnavailable", 500)
      ELSE \E sel \in PortAnswers(etype) : CreateFromPort(u, etype, tier, q.ue, sel)

\* ------------------------------------------------------ lifecycle wrappers
\* the state a lifecycle request leaves, and what it returns
Returns(op, uid, e, result, code, calls, port, cid, cs, ue, st, ap, fault, released) ==
  /\ requests' = requests + 1
  /\ returned' = IF released THEN <<>> ELSE returned
  /\ containers' = cs
  /\ user_environments' = ue
  /\ environment_start_times' = st
  /\ allocated_ports' = ap
  /\ faults' = IF fault THEN faults + 1 ELSE faults
  /\ last' = Event(op, uid, e, result, code, calls, port, cid)
  /\ UNCHANGED <<docker_client, next_id, now, threads>>

\* if user_id and not resource_manager.user_owns_environment(user_id, env_id)
OwnershipDenies(uid, e) ==
  uid # NoUser /\ ~user_owns_environment(user_environments, uid, e)

\* for user_id, environments in user_environments.items():
\*     if env_id in environments: untrack_environment(user_id, env_id); break
UntrackFirstOwner(ue, st, e) ==
  IF Owners(ue, e) = {} THEN [ue |-> ue, st |-> st, raised |-> FALSE]
  ELSE untrack_environment(ue, st, get_environment_owner(ue, e), e)

\* a refusal that, on NotFound, drops the tracking record of the identifier
RefusesAndUntracks(op, uid, e, result, code) ==
  LET un == UntrackFirstOwner(user_environments, environment_start_times, e)
  IN  Returns(op, uid, e, result, code, <<>>, 0, 0, containers,
              IF result = "NotFound" THEN un.ue ELSE user_environments,
              IF result = "NotFound" THEN un.st ELSE environment_start_times,
              allocated_ports, FALSE, FALSE)

\* a lifecycle request that returns without touching anything
Refuses(op, uid, e, result, code) ==
  Returns(op, uid, e, result, code, <<>>, 0, 0, containers, user_environments,
          environment_start_times, allocated_ports, FALSE, FALSE)

\* a lifecycle request whose runtime call raised: nothing changes
RuntimeFails(op, uid, e, calls, k) ==
  Returns(op, uid, e, "RuntimeError", 500, calls, 0, k, containers, user_environments,
          environment_start_times, allocated_ports, TRUE, FALSE)

\* a lifecycle request whose runtime call went through
Succeeds(op, uid, e, calls, k, status, ue, st) ==
  Returns(op, uid, e, "ok", 200, calls, 0, k, [containers EXCEPT ![k].status = status],
          ue, st, allocated_ports, FALSE, FALSE)

\* what container.start() and container.restart() need: the host port free
CanRun(k) == ~PortBoundByOther(containers[k].hostPort, k)

\* POST /api/environments/<env_id>/start
start_environment(e, uid) ==
  IF ~docker_client THEN Refuses("start", uid, e, "DockerUnavailable", 500)
  ELSE IF OwnershipDenies(uid, e) THEN Refuses("start", uid, e, "AccessDenied", 403)
  ELSE IF Resolve(e) = {} THEN Refuses("start", uid, e, "NotFound", 404)
  ELSE
  LET k == Target(e)
      st == containers[k].status
  IN  \E fail \in FaultChoices :
        IF fail THEN RuntimeFails("start", uid, e, <<"start">>, k)
        ELSE IF st = "paused" \/ (st \in {"created", "exited"} /\ ~CanRun(k))
          THEN Returns("start", uid, e, "RuntimeError", 500, <<"start">>, 0, k,
                          containers, user_environments, environment_start_times,
                          allocated_ports, FALSE, FALSE)
        ELSE Succeeds("start", uid, e, <<"start">>, k, "running", user_environments,
                      environment_start_times)

\* POST /api/environments/<env_id>/stop
stop_environment(e, uid) ==
  IF ~docker_client THEN Refuses("stop", uid, e, "DockerUnavailable", 500)
  ELSE IF OwnershipDenies(uid, e) THEN Refuses("stop", uid, e, "AccessDenied", 403)
  ELSE IF Resolve(e) = {} THEN Refuses("stop", uid, e, "NotFound", 404)
  ELSE
  LET k == Target(e)
      st == containers[k].status
      un == UntrackFirstOwner(user_environments, environment_start_times, e)
  IN  \E fail \in FaultChoices :
        IF fail THEN RuntimeFails("stop", uid, e, <<"stop">>, k)
        ELSE Succeeds("stop", uid, e, <<"stop">>, k,
                      IF st \in {"running", "paused"} THEN "exited" ELSE st, un.ue, un.st)

\* POST /api/environments/<env_id>/restart: reads no user_id
restart_environment(e, uid) ==
  IF ~docker_client THEN Refuses("restart", uid, e, "DockerUnavailable", 500)
  ELSE IF Resolve(e) = {} THEN Refuses("restart", uid, e, "NotFound", 404)
  ELSE
  LET k == Target(e)
  IN  \E fail \in FaultChoices :
        IF fail THEN RuntimeFails("restart", uid, e, <<"restart">>, k)
        ELSE IF ~CanRun(k)
          THEN Returns("restart", uid, e, "RuntimeError", 500, <<"restart">>, 0, k,
                          containers, user_environments, environment_start_times,
                          allocated_ports, FALSE, FALSE)
        ELSE Succeeds("restart", uid, e, <<"restart">>, k, "running", user_environments,
                      environment_start_times)

\* pause without the status test: the runtime call is made in any status and
\* the runtime refuses it for a container that is not running
pause_environment_unchecked(e, uid) ==
  IF ~docker_client THEN Refuses("pause", uid, e, "DockerUnavailable", 500)
  ELSE IF OwnershipDenies(uid, e) THEN Refuses("pause", uid, e, "AccessDenied", 403)
  ELSE IF Resolve(e) = {} THEN Refuses("pause", uid, e, "NotFound", 404)
  ELSE
  LET k == Target(e)
  IN  IF containers[k].status # "running"
        THEN Returns("pause", uid, e, "RuntimeError", 500, <<"pause">>, 0, k, containers,
                        user_environments, environment_start_times, allocated_ports, FALSE, FALSE)
      ELSE \E fail \in FaultChoices :
        IF fail THEN RuntimeFails("pause", uid, e, <<"pause">>, k)
        ELSE Succeeds("pause", uid, e, <<"pause">>, k, "paused", user_environments,
                      environment_start_times)

\* POST /api/environments/<env_id>/pause
pause_environment(e, uid) ==
  IF ~docker_client THEN Refuses("pause", uid, e, "DockerUnavailable", 500)
  ELSE IF OwnershipDenies(uid, e) THEN Refuses("pause", uid, e, "AccessDenied", 403)
  ELSE IF Resolve(e) = {} THEN Refuses("pause", uid, e, "NotFound", 404)
  ELSE
  LET k == Target(e)
  IN  IF containers[k].status # "running"
        THEN Returns("pause", uid, e, "StateMismatch", 400, <<>>, 0, k, containers,
                        user_environments, environment_start_times, allocated_ports, FALSE, FALSE)
      ELSE \E fail \in FaultChoices :
        IF fail THEN RuntimeFails("pause", uid, e, <<"pause">>, k)
        ELSE Succeeds("pause", uid, e, <<"pause">>, k, "paused", user_environments,
                      environment_start_times)

\* POST /api/environments/<env_id>/resume
resume_environment(e, uid) ==
  IF ~docker_client THEN Refuses("resume", uid, e, "DockerUnavailable", 500)
  ELSE IF OwnershipDenies(uid, e) THEN Refuses("resume", uid, e, "AccessDenied", 403)
  ELSE IF Resolve(e) = {} THEN Refuses("resume", uid, e, "NotFound", 404)
  ELSE
  LET k == Target(e)
  IN  IF containers[k].status # "paused"
        THEN Returns("resume", uid, e, "StateMismatch", 400, <<>>, 0, k, containers,
                        user_environments, environment_start_times, allocated_ports, FALSE, FALSE)
      ELSE \E fail \in FaultChoices :
        IF fail THEN RuntimeFails("resume", uid, e, <<"unpause">>, k)
        ELSE Succeeds("resume", uid, e, <<"unpause">>, k, "running", user_environments,
                      environment_start_times)

\* POST /api/environments/<env_id>/register-user
register_environment_for_user(e, uid) ==
  IF ~docker_client THEN Refuses("register", uid, e, "DockerUnavailable", 500)
  ELSE IF uid = NoUser THEN Refuses("register", uid, e, "UserRequired", 400)
  ELSE IF Resolve(e) = {} THEN Refuses("register", uid, e, "NotFound", 404)
  ELSE IF user_owns_environment(user_environments, uid, e)
    THEN Returns("register", uid, e, "AlreadyTracked", 200, <<>>, 0, Target(e),
                    containers, user_environments, environment_start_times,
                    allocated_ports, FALSE, FALSE)
  ELSE
  LET tr == track_environment(user_environments, environment_start_times, uid, e)
  IN  Returns("register", uid, e, "ok", 200, <<>>, 0, Target(e), containers,
                 tr.ue, tr.st, allocated_ports, FALSE, FALSE)

\* DELETE /api/environments/<env_id>/delete
delete_environment(e, uid) ==
  IF ~docker_client THEN Refuses("delete", uid, e, "DockerUnavailable", 500)
  ELSE IF OwnershipDenies(uid, e) THEN Refuses("delete", uid, e, "AccessDenied", 403)
  ELSE IF Resolve(e) = {} THEN Refuses("delete", uid, e, "NotFound", 404)
  ELSE
  LET k == Target(e)
      st0 == containers[k].status
      \* container.attrs is what containers.get() fetched, before the stop
      port_to_release == DiscoveredPort(k)
      un == UntrackFirstOwner(user_environments, environment_start_times, e)
  IN  \E stopFail \in FaultChoices, forceFail \in FaultChoices, removeFail \in FaultChoices :
        LET \* container.stop(timeout=10) only for a running container; a failure is logged
            stopped == IF st0 = "running" /\ ~stopFail THEN "exited" ELSE st0
            \* container.remove(force=True), and container.remove() once more if it raised
            calls == (IF st0 = "running" THEN <<"stop">> ELSE <<>>) \o <<"remove">>
                       \o (IF forceFail THEN <<"remove">> ELSE <<>>)
            fault == (st0 = "running" /\ stopFail) \/ forceFail
        IN  /\ removeFail => forceFail
            /\ stopFail => st0 = "running"
            /\ IF forceFail /\ removeFail
                 THEN Returns("delete", uid, e, "RuntimeError", 500, calls, 0, k,
                              [containers EXCEPT ![k].status = stopped], user_environments,
                              environment_start_times, allocated_ports, fault, FALSE)
                 ELSE Returns("delete", uid, e, "ok", 200, calls, port_to_release, k,
                              [containers EXCEPT ![k] = Absent], un.ue, un.st,
                              IF port_to_release # 0
                                THEN release_port(allocated_ports, port_to_release)
                                ELSE allocated_ports, fault, port_to_release # 0)

\* the containers cleanup_environments picks: named by the platform, in status
\* 'created', and with one of the four words in the name
CleanupCandidates ==
  {k \in Slots : /\ Exists(k)
                 /\ containers[k].status = "created"
                 /\ CleanupNameMatch(containers[k].etype)}

\* the body of the loop of cleanup_environments, over the containers whose
\* remove(force=True) succeeds, newest first
RECURSIVE CleanupFold(_, _, _, _)
CleanupFold(todo, ue, st, ap) ==
  IF todo = {} THEN [ue |-> ue, st |-> st, ap |-> ap]
  ELSE
    LET k == CHOOSE x \in todo : \A y \in todo : y <= x
        port_to_release == DiscoveredPort(k)
        un == UntrackFirstOwner(ue, st, containers[k].name)
    IN  CleanupFold(todo \ {k}, un.ue, un.st,
                    IF port_to_release # 0 THEN release_port(ap, port_to_release) ELSE ap)

\* POST /api/environments/cleanup; failing: the containers whose remove raises
cleanup_environments(failing) ==
  IF ~docker_client THEN Refuses("cleanup", NoUser, NoIdent, "DockerUnavailable", 500)
  ELSE
  LET removed == CleanupCandidates \ failing
      r == CleanupFold(removed, user_environments, environment_start_times,
                       allocated_ports)
  IN  /\ failing # {} => faults < MaxFaults
      /\ Returns("cleanup", NoUser, NoIdent, "ok", 200,
                 [i \in 1..Cardinality(CleanupCandidates) |-> "remove"], 0,
                 Cardinality(removed),
                 [k \in Slots |-> IF k \in removed THEN Absent ELSE containers[k]],
                 r.ue, r.st, r.ap, failing # {},
                 \E k \in removed : DiscoveredPort(k) # 0)

\* the clock advances between requests
Tick ==
  /\ now < MaxTime
  /\ now' = now + 1
  /\ last' = Event("tick", NoUser, NoIdent, "ok", 0, <<>>, 0, 0)
  /\ UNCHANGED <<docker_client, containers, next_id, user_environments,
                 environment_start_times, allocated_ports, faults, requests, returned,
                 threads>>

Init ==
  /\ docker_client \in BOOLEAN
  /\ containers = [k \in Slots |-> Absent]
  /\ next_id = 0
  /\ now = 0
  /\ user_environments = <<>>
  /\ environment_start_times = {}
  /\ allocated_ports = {}
  /\ faults = 0
  /\ requests = 0
  /\ returned = <<>>
  /\ last = Event("init", NoUser, NoIdent, "ok", 0, <<>>, 0, 0)
  /\ threads = NoThreads

\* every identifier some user's list holds
Tracked == UNION {Elems(user_environments[i].envs) : i \in 1..Len(user_environments)}

\* the identifiers a request may name: every id and name the runtime knows,
\* every identifier the tracker holds, and one that was never handed out
RequestIdents ==
  {Id(k) : k \in {j \in Slots : Exists(j)}}
    \cup {containers[k].name : k \in {j \in Slots : Exists(j)}}
    \cup Tracked
    \cup environment_start_times
    \cup {Id(0)}

\* the requests the Flask application serves, one action per route; tiers: the
\* tiers a create request may name
CreateRequest(tiers) ==
  /\ requests < MaxRequests
  /\ \E u \in Users, etype \in EnvTypeInputs, tier \in tiers :
       create_environment(u, etype, tier)

StartRequest ==
  /\ requests < MaxRequests
  /\ \E e \in RequestIdents, uid \in UserInputs : start_environment(e, uid)

StopRequest ==
  /\ requests < MaxRequests
  /\ \E e \in RequestIdents, uid \in UserInputs : stop_environment(e, uid)

RestartRequest ==
  /\ requests < MaxRequests
  /\ \E e \in RequestIdents, uid \in UserInputs : restart_environment(e, uid)

PauseRequest ==
  /\ requests < MaxRequests
  /\ \E e \in RequestIdents, uid \in UserInputs : pause_environment(e, uid)

ResumeRequest ==
  /\ requests < MaxRequests
  /\ \E e \in RequestIdents, uid \in UserInputs : resume_environment(e, uid)

RegisterRequest ==
  /\ requests < MaxRequests
  /\ \E e \in RequestIdents, uid \in UserInputs : register_environment_for_user(e, uid)

DeleteRequest ==
  /\ requests < MaxRequests
  /\ \E e \in RequestIdents, uid \in UserInputs : delete_environment(e, uid)

CleanupRequest ==
  /\ requests < MaxRequests
  /\ \E failing \in SUBSET CleanupCandidates : cleanup_environments(failing)

Next ==
  \/ CreateRequest(TierInputs)
  \/ StartRequest
  \/ StopRequest
  \/ RestartRequest
  \/ PauseRequest
  \/ ResumeRequest
  \/ RegisterRequest
  \/ DeleteRequest
  \/ CleanupRequest
  \/ Tick

Spec == Init /\ [][Next]_vars

\* the same application when every request names the tier "default"
SameTier == "default"

NextSameTier ==
  \/ CreateRequest({SameTier})
  \/ StartRequest
  \/ StopRequest
  \/ RestartRequest
  \/ PauseRequest
  \/ ResumeRequest
  \/ RegisterRequest
  \/ DeleteRequest
  \/ CleanupRequest
  \/ Tick

SpecSameTier == Init /\ [][NextSameTier]_vars

\* ------------------------------------------ the port allocator on its own
\* the ports a scan from start_port probes, and the ports the two scans of
\* the application can reach
ScanRange(start_port) == start_port..(start_port + ScanLen - 1)

ScanPortRange == ScanRange(JupyterStart) \cup ScanRange(VscodeStart)

\* one call resource_manager.allocate_port(start_port), with any answer of
\* the runtime listing and of the test bind
CallAllocatePort(start_port, used_docker_ports, unbindable) ==
  LET r == allocate_port(allocated_ports, start_port, ScanLen, used_docker_ports,
                         unbindable)
  IN  /\ allocated_ports' = r.ap
      /\ returned' = IF r.raised THEN returned ELSE Append(returned, r.port)
      /\ last' = Event("allocate_port", NoUser, NoIdent,
                       IF r.raised THEN "PortExhausted" ELSE "ok", 0, <<>>, r.port, 0)
      /\ UNCHANGED <<docker_client, containers, next_id, now, user_environments,
                     environment_start_times, faults, requests, threads>>

\* one call resource_manager.release_port(port); the event keeps whether the
\* port was reserved when the call was made
CallReleasePort(port) ==
  /\ allocated_ports' = release_port(allocated_ports, port)
  /\ returned' = <<>>
  /\ last' = [Event("release_port", NoUser, NoIdent, "ok", 0, <<>>, port, 0)
                EXCEPT !.allocated = IF port \in allocated_ports THEN port ELSE 0]
  /\ UNCHANGED <<docker_client, containers, next_id, now, user_environments,
                 environment_start_times, faults, requests, threads>>

NextPorts ==
  \/ \E start_port \in {JupyterStart, VscodeStart} :
       \E used_docker_ports \in SUBSET ScanRange(start_port),
          unbindable \in SUBSET ScanRange(start_port) :
         CallAllocatePort(start_port, used_docker_ports, unbindable)
  \/ \E port \in ScanPortRange \cup {MultiGpuHostPort} : CallReleasePort(port)

SpecPorts == Init /\ [][NextPorts]_vars

\* a single allocate_port call on any reservation set; the event keeps the
\* answers of the runtime listing and of the test bind. Without a docker
\* client the listing is skipped.
ScanCall(start_port, used_docker_ports, unbindable) ==
  LET r == allocate_port(allocated_ports, start_port, ScanLen, used_docker_ports,
                         unbindable)
  IN  /\ requests < MaxQueries
      /\ requests' = requests + 1
      /\ allocated_ports' = r.ap
      /\ returned' = IF r.raised THEN returned ELSE Append(returned, r.port)
      /\ last' = [Event("allocate_port", NoUser, NoIdent,
                        IF r.raised THEN "PortExhausted" ELSE "ok", 0, <<>>, r.port, 0)
                    EXCEPT !.input = [start_port |-> start_port,
                                      used_docker_ports |-> used_docker_ports,
                                      unbindable |-> unbindable]]
      /\ UNCHANGED <<docker_client, containers, next_id, now, user_environments,
                     environment_start_times, faults, threads>>

InitScan ==
  /\ docker_client \in BOOLEAN
  /\ containers = [k \in Slots |-> Absent]
  /\ next_id = 0
  /\ now = 0
  /\ user_environments = <<>>
  /\ environment_start_times = {}
  /\ allocated_ports \in SUBSET ScanPortRange
  /\ faults = 0
  /\ requests = 0
  /\ returned = <<>>
  /\ last = Event("init", NoUser, NoIdent, "ok", 0, <<>>, 0, 0)
  /\ threads = NoThreads

NextScan ==
  \E start_port \in {JupyterStart, VscodeStart} :
    \E used_docker_ports \in IF docker_client THEN SUBSET ScanRange(start_port) ELSE {{}},
       unbindable \in SUBSET ScanRange(start_port) :
      ScanCall(start_port, used_docker_ports, unbindable)

SpecScan == InitScan /\ [][NextScan]_vars

\* ------------------------------------- the ownership tracker on its own
\* the list lengths a quota check is tried on: 0 up to one past the largest limit
TrackedCounts == 0..(RESOURCE_QUOTAS["enterprise"].max_environments + 1)

\* the quota_type values the direct calls name: every tier and an unknown one
TrackerTiers == DOMAIN RESOURCE_QUOTAS \cup TierInputs

\* the identifiers the direct calls name
TrackerIdents == {Id(1), Id(2)}

\* the tracker after n track_environment calls for one user
InitTracker ==
  /\ docker_client \in BOOLEAN
  /\ containers = [k \in Slots |-> Absent]
  /\ next_id = 0
  /\ now = 0
  /\ \E n \in TrackedCounts :
       /\ user_environments =
            IF n = 0 THEN <<>> ELSE <<[uid |-> "alice", envs |-> [i \in 1..n |-> Id(i)]]>>
       /\ environment_start_times = {Id(i) : i \in 1..n}
  /\ allocated_ports = {}
  /\ faults = 0
  /\ requests = 0
  /\ returned = <<>>
  /\ last = Event("init", NoUser, NoIdent, "ok", 0, <<>>, 0, 0)
  /\ threads = NoThreads

\* what a direct call leaves: the new tracker and the call's outcome
TrackerCallReturns(op, u, c, tier, result, ue, st) ==
  /\ requests < MaxCalls
  /\ requests' = requests + 1
  /\ user_environments' = ue
  /\ environment_start_times' = st
  /\ last' = [Event(op, u, c, result, 0, <<>>, 0, 0) EXCEPT !.tier = tier]
  /\ UNCHANGED <<docker_client, containers, next_id, now, allocated_ports, faults,
                 returned, threads>>

\* one call resource_manager.check_user_quota(user_id, quota_type)
CallCheckUserQuota(u, tier) ==
  LET q == check_user_quota(user_environments, u, tier)
  IN  TrackerCallReturns("check_user_quota", u, NoIdent, tier,
                         IF q.raised THEN "KeyError"
                         ELSE IF q.ok THEN "ok" ELSE "QuotaExceeded",
                         q.ue, environment_start_times)

\* one call resource_manager.track_environment(user_id, container_id)
CallTrackEnvironment(u, c) ==
  LET tr == track_environment(user_environments, environment_start_times, u, c)
  IN  TrackerCallReturns("track_environment", u, c, "-", "ok", tr.ue, tr.st)

\* one call resource_manager.untrack_environment(user_id, container_id)
CallUntrackEnvironment(u, c) ==
  LET un == untrack_environment(user_environments, environment_start_times, u, c)
  IN  TrackerCallReturns("untrack_environment", u, c, "-",
                         IF un.raised THEN "ValueError" ELSE "ok", un.ue, un.st)

NextTracker ==
  \/ \E u \in Users, tier \in TrackerTiers : CallCheckUserQuota(u, tier)
  \/ \E u \in Users, c \in TrackerIdents : CallTrackEnvironment(u, c)
  \/ \E u \in Users, c \in TrackerIdents : CallUntrackEnvironment(u, c)

SpecTracker == InitTracker /\ [][NextTracker]_vars

\* ------------------------------------------------------ usage aggregation
\* memory is counted in thousandths of a GB; round(total_memory, 2) keeps
\* hundredths
Round2(m) == ((m + 5) \div 10) * 10

\* the loop body that takes the stats of every container it finds, whatever
\* its status
UsageStepAnyStatus(acc, c, outcome, memory, cores, gpus) ==
  IF ~docker_client \/ outcome = "lookup_fails" \/ Resolve(c) = {} THEN acc
  ELSE
  LET st == containers[Target(c)].status
      a1 == IF st = "running" THEN [acc EXCEPT !.running_environments = @ + 1]
            ELSE IF st = "paused" THEN [acc EXCEPT !.paused_environments = @ + 1]
            ELSE acc
      a2 == [a1 EXCEPT !.total_memory_gb = @ + memory]
  IN  IF outcome = "stats_fails" THEN a1
      ELSE IF outcome = "cpu_fails" THEN a2
      ELSE [a2 EXCEPT !.total_cpu_cores = @ + cores,
                      !.total_gpus = @ + (IF gpus < 0 THEN 0 ELSE gpus)]

\* one iteration of the loop of get_user_resource_usage over the entry c.
\* outcome: "lookup_fails" (containers.get raises), "stats_fails"
\* (container.stats or the memory key raises), "cpu_fails" (the percpu_usage key
\* raises, after the memory was added), "ok". memory, cores: the container's
\* stats; gpus: the GPUs in use, -1 when the probe raises (and is passed over).
UsageStep(acc, c, outcome, memory, cores, gpus) ==
  IF ~docker_client \/ outcome = "lookup_fails" \/ Resolve(c) = {} THEN acc
  ELSE
  LET st == containers[Target(c)].status
  IN  IF st = "running"
        THEN LET a1 == [acc EXCEPT !.running_environments = @ + 1]
                 a2 == [a1 EXCEPT !.total_memory_gb = @ + memory]
             IN  IF outcome = "stats_fails" THEN a1
                 ELSE IF outcome = "cpu_fails" THEN a2
                 ELSE [a2 EXCEPT !.total_cpu_cores = @ + cores,
                                 !.total_gpus = @ + (IF gpus < 0 THEN 0 ELSE gpus)]
      ELSE IF st = "paused" THEN [acc EXCEPT !.paused_environments = @ + 1]
      ELSE acc

\* for container_id in self.user_environments[user_id]: ...
RECURSIVE UsageFold(_, _, _, _)
UsageFold(envs, i, acc, input) ==
  IF i > Len(envs) THEN acc
  ELSE UsageFold(envs, i + 1,
                 UsageStep(acc, envs[i], input.probe[i], input.memory[i], input.cores,
                           input.gpus),
                 input)

\* ResourceManager.get_user_resource_usage(user_id)
get_user_resource_usage(u, input) ==
  IF u \notin Keys(user_environments) THEN ZeroUsage
  ELSE
  LET envs == EnvsOf(user_environments, u)
      acc == UsageFold(envs, 1, ZeroUsage, input)
  IN  [acc EXCEPT !.environments = Len(envs), !.total_memory_gb = Round2(@)]

\* the runtime answers a usage query over n entries may meet: at most one
\* entry whose lookup or stats fail, two memory readings, the cores and the
\* GPUs in use
UsageInputs(n) ==
  {[probe |-> [i \in 1..n |-> IF i = f THEN how ELSE "ok"],
    memory |-> [i \in 1..n |-> IF same THEN 512 ELSE 1000 * i + 234],
    cores |-> cores, gpus |-> gpus] :
     f \in 0..n, how \in {"lookup_fails", "stats_fails", "cpu_fails"},
     same \in BOOLEAN, cores \in {2, 4}, gpus \in GpuInputs}

\* GET /api/users/<user_id>/resources
UsageRequest(u) ==
  /\ requests < MaxQueries
  /\ \E input \in UsageInputs(Len(EnvsOf(user_environments, u))) :
       last' = [Event("usage", u, NoIdent, "ok", 200, <<>>, 0, 0)
                  EXCEPT !.usage = get_user_resource_usage(u, input), !.input = input]
  /\ requests' = requests + 1
  /\ UNCHANGED <<docker_client, containers, next_id, now, user_environments,
                 environment_start_times, allocated_ports, faults, returned, threads>>

\* the identifiers a list may hold: the names create tracked and an id
\* registered afterwards
UsageIdents == {Name("pytorch-jupyter", 0), Name("vscode", 0), Id(1)}

\* the two containers alice created at time 0, in any status ("absent":
\* deleted since)
UsageContainer(k, status) ==
  IF status = "absent" \/ k > 2 THEN Absent
  ELSE [name |-> Name(IF k = 1 THEN "pytorch-jupyter" ELSE "vscode", 0),
        etype |-> IF k = 1 THEN "pytorch-jupyter" ELSE "vscode",
        status |-> status,
        hostPort |-> IF k = 1 THEN JupyterStart ELSE VscodeStart,
        cport |-> IF k = 1 THEN JupyterStart ELSE VscodeStart,
        creator |-> "alice", ok |-> TRUE]

\* the states a usage query is tried on: any status of the two containers and
\* any list of at most MaxListed identifiers for alice; without a docker client
\* nothing was ever created
InitUsage ==
  /\ docker_client \in BOOLEAN
  /\ \E s1 \in {"absent", "created", "running", "paused", "exited"},
        s2 \in {"absent", "created", "running", "paused", "exited"} :
       containers = [k \in Slots |->
                       IF ~docker_client THEN Absent
                       ELSE UsageContainer(k, IF k = 1 THEN s1 ELSE s2)]
  /\ \E n \in 0..MaxListed :
       \E envs \in [1..n -> UsageIdents] :
         /\ user_environments \in {<<>>, <<[uid |-> "alice", envs |-> envs]>>}
         /\ user_environments = <<>> => n = 0
         /\ ~docker_client => n = 0
         /\ environment_start_times = Elems(envs)
  /\ next_id = IF docker_client THEN 2 ELSE 0
  /\ now = 0
  /\ allocated_ports = {containers[k].hostPort : k \in {j \in Slots : Exists(j)}}
  /\ faults = 0
  /\ requests = 0
  /\ returned = <<>>
  /\ last = Event("init", NoUser, NoIdent, "ok", 0, <<>>, 0, 0)
  /\ threads = NoThreads

NextUsage == \E u \in Users : UsageRequest(u)

SpecUsage == InitUsage /\ [][NextUsage]_vars

\* ------------------------------------------- create requests on threads
\* A create request runs _create_environment_core in three stretches between
\* which another thread can run: the type and quota checks, the stretch from
\* check_resource_availability to containers.run, and track_environment.

\* thread t takes the step that leaves it as th
ThreadSteps(t, th) == threads' = [threads EXCEPT ![t] = th]

\* thread t returns from its call
ThreadReturns(t, result) == ThreadSteps(t, [threads[t] EXCEPT !.pc = "done", !.result = result])

\* if env_type not in ENVIRONMENT_CONFIGS ...; check_user_quota(user_id, user_quota)
CreateChecks(t) ==
  LET th == threads[t]
      q == check_user_quota(user_environments, th.uid, th.tier)
  IN  /\ th.pc = "called"
      /\ IF th.etype \notin DOMAIN ENVIRONMENT_CONFIGS
           THEN ThreadReturns(t, "InvalidType") /\ UNCHANGED user_environments
         ELSE /\ user_environments' = q.ue
              /\ IF q.raised THEN ThreadReturns(t, "KeyError")
                 ELSE IF ~q.ok THEN ThreadReturns(t, "QuotaExceeded")
                 ELSE ThreadSteps(t, [th EXCEPT !.pc = "checked"])
      /\ UNCHANGED <<docker_client, containers, next_id, now, environment_start_times,
                     allocated_ports, faults, requests, returned, last>>

\* check_resource_availability, the port selection and containers.run
CreateRuns(t) ==
  LET th == threads[t]
      k == next_id + 1
      name == Name(th.etype, now)
  IN  /\ th.pc = "checked"
      /\ next_id < MaxContainers
      /\ \E avail \in AvailabilityAnswers(th.etype) :
           IF avail # "ok"
             THEN /\ ThreadReturns(t, avail)
                  /\ UNCHANGED <<containers, next_id, allocated_ports>>
           ELSE \E sel \in PortAnswers(th.etype) :
             LET outcome == RunOutcome("ok", name, sel.port) IN
             IF sel.raised
               THEN /\ ThreadReturns(t, "PortExhausted")
                    /\ UNCHANGED <<containers, next_id, allocated_ports>>
             ELSE IF outcome = "create_fails"
               THEN /\ ThreadReturns(t, "RunError")
                    /\ allocated_ports' = ReleaseOnRunFailure(sel.ap, sel.port)
                    /\ UNCHANGED <<containers, next_id>>
             ELSE IF outcome = "start_fails"
               THEN /\ ThreadReturns(t, "RunError")
                    /\ allocated_ports' = ReleaseOnRunFailure(sel.ap, sel.port)
                    /\ containers' = [containers EXCEPT
                                        ![k] = NewContainer(th.uid, th.etype, sel.port, outcome)]
                    /\ next_id' = k
             ELSE /\ ThreadSteps(t, [th EXCEPT !.pc = "ran", !.name = name, !.port = sel.port])
                  /\ allocated_ports' = sel.ap
                  /\ containers' = [containers EXCEPT
                                      ![k] = NewContainer(th.uid, th.etype, sel.port, outcome)]
                  /\ next_id' = k
      /\ UNCHANGED <<docker_client, now, user_environments, environment_start_times,
                     faults, requests, returned, last>>

\* a registration that looks at the quota again and gives up when the list
\* has filled in the meantime
CreateTracksWithinQuota(t) ==
  LET th == threads[t]
      tr == track_environment(user_environments, environment_start_times, th.uid, th.name)
      full == ~check_user_quota(user_environments, th.uid, th.tier).ok
  IN  /\ th.pc = "ran"
      /\ user_environments' = IF full THEN user_environments ELSE tr.ue
      /\ environment_start_times' = IF full THEN environment_start_times ELSE tr.st
      /\ ThreadReturns(t, IF full THEN "QuotaExceeded" ELSE "ok")
      /\ UNCHANGED <<docker_client, containers, next_id, now, allocated_ports, faults,
                     requests, returned, last>>

\* resource_manager.track_environment(user_id, container.name), return 200
CreateTracks(t) ==
  LET th == threads[t]
      tr == track_environment(user_environments, environment_start_times, th.uid, th.name)
  IN  /\ th.pc = "ran"
      /\ user_environments' = tr.ue
      /\ environment_start_times' = tr.st
      /\ ThreadReturns(t, "ok")
      /\ UNCHANGED <<docker_client, containers, next_id, now, allocated_ports, faults,
                     requests, returned, last>>

\* the create requests the threads are given
CreateCalls ==
  [ThreadIds -> {[IdleThread EXCEPT !.pc = "called", !.uid = u, !.etype = etype,
                                    !.tier = tier] :
                   u \in Users, etype \in EnvTypeInputs, tier \in TierInputs}]

\* the server with alice tracking n environments created at time 0 (n up to
\* one below the default limit), and a create request on every thread
InitQuotaRace ==
  /\ docker_client = TRUE
  /\ now \in 0..MaxTime
  /\ \E n \in 0..(RESOURCE_QUOTAS["default"].max_environments - 1) :
       /\ containers = [k \in Slots |-> IF k <= n THEN UsageContainer(k, "running") ELSE Absent]
       /\ next_id = n
       /\ user_environments =
            IF n = 0 THEN <<>>
            ELSE <<[uid |-> "alice", envs |-> [i \in 1..n |-> UsageContainer(i, "running").name]]>>
       /\ environment_start_times = {UsageContainer(i, "running").name : i \in 1..n}
       /\ allocated_ports = {UsageContainer(i, "running").hostPort : i \in 1..n}
  /\ faults = 0
  /\ requests = 0
  /\ returned = <<>>
  /\ last = Event("init", NoUser, NoIdent, "ok", 0, <<>>, 0, 0)
  /\ threads \in CreateCalls

NextQuotaRace ==
  \E t \in ThreadIds :
    \/ CreateChecks(t)
    \/ CreateRuns(t)
    \/ CreateTracks(t)

SpecQuotaRace == InitQuotaRace /\ [][NextQuotaRace]_vars

\* -------------------------------------------- allocate_port on threads
\* The loop of allocate_port, one step per statement that reads or writes what
\* another thread can see: the membership test on allocated_ports, the test
\* bind of the socket, and the insertion (after which the socket is closed).

\* for port in range(...): if port in self.allocated_ports: continue
\*                         if port in used_docker_ports: continue
PortTests(t) ==
  LET th == threads[t]
  IN  /\ th.pc = "scan"
      /\ IF th.port >= th.start + ScanLen THEN ThreadReturns(t, "PortExhausted")
         ELSE IF th.port \in allocated_ports \/ th.port \in UsedDockerPorts
           THEN ThreadSteps(t, [th EXCEPT !.port = @ + 1])
         ELSE ThreadSteps(t, [th EXCEPT !.pc = "tested"])
      /\ UNCHANGED <<docker_client, containers, next_id, now, user_environments,
                     environment_start_times, allocated_ports, faults, requests,
                     returned, last>>

\* s.bind(('localhost', port)): OSError while another thread holds its socket
\* on the port
PortBinds(t) ==
  LET th == threads[t]
  IN  /\ th.pc = "tested"
      /\ IF \E o \in ThreadIds \ {t} : threads[o].pc = "bound" /\ threads[o].port = th.port
           THEN ThreadSteps(t, [th EXCEPT !.pc = "scan", !.port = @ + 1])
           ELSE ThreadSteps(t, [th EXCEPT !.pc = "bound"])
      /\ UNCHANGED <<docker_client, containers, next_id, now, user_environments,
                     environment_start_times, allocated_ports, faults, requests,
                     returned, last>>

\* an insertion that tests the membership again and goes on scanning when the
\* port was reserved in the meantime
PortInsertsIfAbsent(t) ==
  LET th == threads[t]
  IN  /\ th.pc = "bound"
      /\ IF th.port \in allocated_ports
           THEN /\ ThreadSteps(t, [th EXCEPT !.pc = "scan", !.port = @ + 1])
                /\ UNCHANGED <<allocated_ports, returned>>
           ELSE /\ allocated_ports' = allocated_ports \cup {th.port}
                /\ returned' = Append(returned, th.port)
                /\ ThreadReturns(t, "ok")
      /\ UNCHANGED <<docker_client, containers, next_id, now, user_environments,
                     environment_start_times, faults, requests, last>>

\* self.allocated_ports.add(port); return port
PortInserts(t) ==
  LET th == threads[t]
  IN  /\ th.pc = "bound"
      /\ allocated_ports' = allocated_ports \cup {th.port}
      /\ returned' = Append(returned, th.port)
      /\ ThreadReturns(t, "ok")
      /\ UNCHANGED <<docker_client, containers, next_id, now, user_environments,
                     environment_start_times, faults, requests, last>>

\* the allocate_port calls the threads are given
PortCalls ==
  [ThreadIds -> {[IdleThread EXCEPT !.pc = "scan", !.start = start_port, !.port = start_port] :
                   start_port \in {JupyterStart, VscodeStart}}]

\* the allocator with any reservations of the two ranges, with or without a
\* running container, and an allocate_port call on every thread
InitPortRace ==
  /\ docker_client = TRUE
  /\ now = 0
  /\ \E n \in 0..1 :
       /\ containers = [k \in Slots |-> IF k <= n THEN UsageContainer(k, "running") ELSE Absent]
       /\ next_id = n
  /\ user_environments = <<>>
  /\ environment_start_times = {}
  /\ allocated_ports \in SUBSET ScanPortRange
  /\ faults = 0
  /\ requests = 0
  /\ returned = <<>>
  /\ last = Event("init", NoUser, NoIdent, "ok", 0, <<>>, 0, 0)
  /\ threads \in PortCalls

NextPortRace ==
  \E t \in ThreadIds :
    \/ PortTests(t)
    \/ PortBinds(t)
    \/ PortInserts(t)

SpecPortRace == InitPortRace /\ [][NextPortRace]_vars

\* ------------------------------------------------------------ properties
\* the requests of create that return before the port selection with a
\* validation, quota or resource answer
PreCheckRejections ==
  {"InvalidType", "QuotaExceeded", "ResourceUnavailable", "GpuProbeError", "DockerUnavailable"}

\* the lists of every user hold the same identifiers before and after the step
ListsUnchanged ==
  \A u \in Users : EnvsOf(user_environments', u) = EnvsOf(user_environments, u)

\* C1: when a create request for user u and tier t has just returned success,
\* the number of environments tracked for u is at most t's max_environments.
C1_CreateKeepsQuota ==
  (last.op = "create" /\ last.result = "ok")
    => Len(EnvsOf(user_environments, last.uid))
         <= RESOURCE_QUOTAS[last.tier].max_environments

\* a successful create that fills the user's quota exactly
C1_Witness ==
  /\ last.op = "create" /\ last.result = "ok" /\ last.tier = "default"
  /\ Len(EnvsOf(user_environments, last.uid)) = RESOURCE_QUOTAS["default"].max_environments

\* C2: when every request names the same tier t, under all the operations of
\* the API, no user ever has more tracked environments than t's
\* max_environments.
C2_QuotaNeverExceeded ==
  \A i \in 1..Len(user_environments) :
    Len(user_environments[i].envs) <= RESOURCE_QUOTAS[SameTier].max_environments

\* C3: no host port is held by two distinct existing environments (created by
\* a successful create and not yet deleted or cleaned up).
C3_NoSharedHostPort ==
  \A j \in Slots, k \in Slots :
    (j # k /\ Exists(j) /\ Exists(k) /\ containers[j].ok /\ containers[k].ok)
      => containers[j].hostPort # containers[k].hostPort

\* C4: the ports returned by successive successful allocate_port calls with
\* no release_port call in between are pairwise distinct.
C4_AllocationsDistinct ==
  \A i \in 1..Len(returned), j \in 1..Len(returned) :
    i # j => returned[i] # returned[j]

\* two allocations in a row, the second one just returned
C4_Witness ==
  /\ last.op = "allocate_port" /\ last.result = "ok"
  /\ Len(returned) >= 2

\* C5: a start, stop, restart, pause or resume request on an existing
\* environment that names a user who does not own it returns AccessDenied,
\* makes no runtime call and leaves ownership, start times and reserved ports
\* as they were.
C5_NonOwnerDenied ==
  [][(/\ last'.op \in {"start", "stop", "restart", "pause", "resume"}
      /\ docker_client
      /\ Resolve(last'.env) # {}
      /\ last'.uid # NoUser
      /\ ~user_owns_environment(user_environments, last'.uid, last'.env))
       => (/\ last'.result = "AccessDenied"
           /\ last'.calls = <<>>
           /\ UNCHANGED tracker)]_vars

\* C6: every tracked identifier is in the list of exactly one user, and that
\* user is the one whose create request produced the environment.
C6_SingleOwnerIsCreator ==
  \A c \in Tracked :
    /\ Cardinality(Owners(user_environments, c)) = 1
    /\ \A k \in Resolve(c) :
         \A i \in Owners(user_environments, c) :
           user_environments[i].uid = containers[k].creator

\* C7: when create fails after its port was allocated (data volumes, runtime
\* create or start, registration), the allocated port is not reserved once the
\* error is returned.
C7_PortReleasedOnFailure ==
  (/\ last.op = "create"
   /\ last.result \in {"DataPathError", "RunError"}
   /\ last.allocated # 0)
    => last.allocated \notin allocated_ports

\* C8: a create request rejected at the environment-type validation, at the
\* quota check or at the resource pre-check allocates no port, creates no
\* container, calls the runtime not at all and registers no ownership.
C8_RejectedCreateHasNoEffect ==
  [][(/\ last'.op = "create"
      /\ last'.code = 400
      /\ last'.result \in PreCheckRejections)
       => (/\ allocated_ports' = allocated_ports
           /\ returned' = returned
           /\ containers' = containers
           /\ next_id' = next_id
           /\ environment_start_times' = environment_start_times
           /\ ListsUnchanged
           /\ last'.calls = <<>>
           /\ last'.allocated = 0)]_vars

\* a create refused by the quota check while ports are reserved and containers
\* exist
C8_Witness ==
  /\ last.op = "create" /\ last.result = "QuotaExceeded" /\ last.code = 400
  /\ allocated_ports # {}
  /\ \E k \in Slots : Exists(k)

\* C9: when the scan of allocate_port finds no free port, the set of reserved
\* ports is unchanged and create returns an error with no container created
\* and no ownership registered.
C9_ExhaustionHasNoEffect ==
  [][(last'.op = "create" /\ last'.result = "PortExhausted")
       => (/\ last'.code = 500
           /\ allocated_ports' = allocated_ports
           /\ containers' = containers
           /\ next_id' = next_id
           /\ environment_start_times' = environment_start_times
           /\ ListsUnchanged
           /\ last'.calls = <<>>)]_vars

\* a create that found its whole scan range taken
C9_Witness ==
  /\ last.op = "create" /\ last.result = "PortExhausted" /\ last.code = 500
  /\ last.etype \in {"pytorch-jupyter", "vscode"}

\* C10: after delete returns success for an environment, no user owns it, it
\* has no start-time entry, and the host port discovered for it is not
\* reserved.
C10_DeleteClearsRecords ==
  (last.op = "delete" /\ last.result = "ok")
    => (/\ Owners(user_environments, last.env) = {}
        /\ last.env \notin environment_start_times
        /\ (last.port # 0 => last.port \notin allocated_ports))

\* C11 (as claimed): with the runtime reachable, delete on an identifier that
\* resolves to no container returns NotFound and leaves ownership, start
\* times and reserved ports unchanged.
C11_DeleteMissingIsNotFound ==
  [][(last'.op = "delete" /\ docker_client /\ Resolve(last'.env) = {})
       => (last'.result = "NotFound" /\ UNCHANGED tracker)]_vars

\* C11 (amended): with the runtime reachable, delete on an identifier that
\* resolves to no container returns AccessDenied when the request names a user
\* who does not track the identifier and NotFound otherwise; it makes no
\* runtime call and changes neither the tracker nor the containers, so that
\* repeating the request gives the same answer.
C11_DeleteMissingChangesNothing ==
  [][(last'.op = "delete" /\ docker_client /\ Resolve(last'.env) = {})
       => (/\ last'.result =
                IF last'.uid # NoUser
                     /\ ~user_owns_environment(user_environments, last'.uid, last'.env)
                  THEN "AccessDenied" ELSE "NotFound"
           /\ last'.calls = <<>>
           /\ UNCHANGED <<tracker, containers, docker_client>>)]_vars

\* a delete that answered NotFound for an identifier some list still holds
C11_Witness ==
  /\ last.op = "delete" /\ last.result = "NotFound"
  /\ last.env \in Tracked
  /\ Resolve(last.env) = {}

\* C12: the ownership records stay in place across start, stop, restart, pause
\* and resume.
C12_LifecycleKeepsOwnership ==
  [][(last'.op \in {"start", "stop", "restart", "pause", "resume"})
       => (ListsUnchanged
           /\ environment_start_times' = environment_start_times)]_vars

\* C13: with every request naming tier t, a create for user u is rejected with
\* QuotaExceeded exactly when u's tracked count has reached t's
\* max_environments, and once one of u's environments (created by u, tracked
\* for u, u within the limit) has been deleted successfully, u passes the quota
\* check again.
C13_DeleteFreesQuota ==
  [][/\ (last'.op = "create" /\ last'.etype \in DOMAIN ENVIRONMENT_CONFIGS)
          => (last'.result = "QuotaExceeded"
                <=> Len(EnvsOf(user_environments, last'.uid))
                      >= RESOURCE_QUOTAS[SameTier].max_environments)
     /\ (last'.op = "delete" /\ last'.result = "ok")
          => \A u \in Users :
               (/\ containers[last'.cid].creator = u
                /\ containers[last'.cid].ok
                /\ user_owns_environment(user_environments, u, containers[last'.cid].name)
                /\ Len(EnvsOf(user_environments, u))
                     <= RESOURCE_QUOTAS[SameTier].max_environments)
                 => check_user_quota(user_environments', u, SameTier).ok]_vars

\* C14: untrack_environment(u, c) for a pair that is not tracked returns
\* without raising and leaves the ownership map unchanged.
C14_UntrackAbsentIsSilent ==
  [][(/\ last'.op = "untrack_environment"
      /\ ~user_owns_environment(user_environments, last'.uid, last'.env))
       => (last'.result = "ok" /\ user_environments' = user_environments)]_vars

\* C15: immediately after untrack_environment(u, c) returns,
\* user_owns_environment(u, c) is false.
C15_UntrackThenNotOwned ==
  [][(last'.op = "untrack_environment" /\ last'.result = "ok")
       => ~user_owns_environment(user_environments', last'.uid, last'.env)]_vars

\* C16: for every tier, check_user_quota(u, t) rejects exactly when the number
\* of environments tracked for u is at least t's max_environments, and the
\* call leaves every user's tracked environments as they were.
C16_QuotaBoundary ==
  [][(last'.op = "check_user_quota" /\ last'.tier \in DOMAIN RESOURCE_QUOTAS)
       => (/\ last'.result \in {"ok", "QuotaExceeded"}
           /\ last'.result = "QuotaExceeded"
                <=> Len(EnvsOf(user_environments, last'.uid))
                      >= RESOURCE_QUOTAS[last'.tier].max_environments
           /\ ListsUnchanged
           /\ environment_start_times' = environment_start_times)]_vars

\* the check of the largest tier at one past its limit
C16_Witness ==
  /\ last.op = "check_user_quota" /\ last.tier = "enterprise"
  /\ last.result = "QuotaExceeded"
  /\ Len(EnvsOf(user_environments, last.uid))
       = RESOURCE_QUOTAS["enterprise"].max_environments + 1

\* C17: pause calls the runtime only for a running container and resume only
\* for a paused one; for a container in any other status the request returns
\* the state-mismatch error and the containers are unchanged.
C17_PauseResumeNeedState ==
  [][/\ (last'.op = "pause")
          => (/\ last'.calls # <<>>
                   => (last'.calls = <<"pause">>
                       /\ containers[last'.cid].status = "running")
              /\ (last'.cid # 0 /\ containers[last'.cid].status # "running")
                   => (/\ last'.result = "StateMismatch" /\ last'.code = 400
                       /\ containers' = containers))
     /\ (last'.op = "resume")
          => (/\ last'.calls # <<>>
                   => (last'.calls = <<"unpause">>
                       /\ containers[last'.cid].status = "paused")
              /\ (last'.cid # 0 /\ containers[last'.cid].status # "paused")
                   => (/\ last'.result = "StateMismatch" /\ last'.code = 400
                       /\ containers' = containers))]_vars

\* a pause refused because the container is already paused
C17_Witness ==
  /\ last.op = "pause" /\ last.result = "StateMismatch"
  /\ last.cid # 0
  /\ containers[last.cid].status = "paused"

\* the positions of the list of u whose identifier resolves to a container in
\* status st
PositionsIn(u, st) ==
  {i \in 1..Len(EnvsOf(user_environments, u)) :
     /\ Resolve(EnvsOf(user_environments, u)[i]) # {}
     /\ containers[Target(EnvsOf(user_environments, u)[i])].status = st}

RECURSIVE SumAt(_, _)
\* the sum of the readings f at the positions S
SumAt(f, S) ==
  IF S = {} THEN 0
  ELSE LET i == CHOOSE j \in S : TRUE IN f[i] + SumAt(f, S \ {i})

\* what a usage answer must be when the entries at the positions skip are left
\* out of every count but the environment total
UsageOver(u, input, skip) ==
  LET R == PositionsIn(u, "running") \ skip
      P == PositionsIn(u, "paused") \ skip
  IN  [environments |-> Len(EnvsOf(user_environments, u)),
       running_environments |-> Cardinality(R),
       paused_environments |-> Cardinality(P),
       total_memory_gb |-> Round2(SumAt(input.memory, R)),
       total_cpu_cores |-> input.cores * Cardinality(R),
       total_gpus |-> (IF input.gpus < 0 THEN 0 ELSE input.gpus) * Cardinality(R)]

\* the positions of a usage query whose lookup or stats failed
FailedAt(input) == {i \in DOMAIN input.probe : input.probe[i] # "ok"}

\* C18: get_user_resource_usage(u) answers all zeros for a user with no
\* tracked container; otherwise environments is the number of tracked entries
\* whatever their status, running_environments and paused_environments count
\* the tracked entries whose container is in that status, and the memory, CPU
\* and GPU totals are the sums over the running ones only (every lookup and
\* stats query answering).
C18_UsageAggregates ==
  (last.op = "usage" /\ docker_client /\ FailedAt(last.input) = {})
    => /\ Len(EnvsOf(user_environments, last.uid)) = 0 => last.usage = ZeroUsage
       /\ last.usage = UsageOver(last.uid, last.input, {})

\* one paused and one running container: environments 2, running 1, paused 1,
\* memory and CPU those of the running one
C18_Witness ==
  /\ last.op = "usage" /\ docker_client /\ FailedAt(last.input) = {}
  /\ Cardinality(PositionsIn(last.uid, "running")) = 1
  /\ Cardinality(PositionsIn(last.uid, "paused")) = 1
  /\ last.usage.environments = 2
  /\ last.usage.running_environments = 1
  /\ last.usage.paused_environments = 1
  /\ last.usage.total_memory_gb > 0
  /\ last.usage.total_cpu_cores = last.input.cores

\* C19: when the lookup or the stats query of one tracked container fails,
\* that container is skipped (it adds to no count and to no total) and every
\* other tracked container is still aggregated; the call returns a result.
C19_FailedEntrySkipped ==
  (last.op = "usage" /\ docker_client /\ FailedAt(last.input) # {})
    => last.usage = UsageOver(last.uid, last.input, FailedAt(last.input))

\* C20: cleanup removes every container of the platform that is in status
\* 'created', whatever environment type create made it for, untracks its name
\* and releases its discoverable port, and removes no container in any other
\* status (on a sweep in which no removal fails).
C20_CleanupSweepsCreated ==
  [][(last'.op = "cleanup" /\ last'.result = "ok" /\ last'.cid = Len(last'.calls))
       => \A k \in Slots :
            /\ (Exists(k) /\ containers[k].status = "created")
                 => /\ containers'[k] = Absent
                    /\ \A i \in DOMAIN user_environments' :
                         containers[k].name \notin Elems(user_environments'[i].envs)
                    /\ DiscoveredPort(k) # 0 => DiscoveredPort(k) \notin allocated_ports'
            /\ (Exists(k) /\ containers[k].status # "created")
                 => containers'[k] = containers[k]]_vars

\* the operations on the life of an environment
LifecycleOps ==
  {"create", "start", "stop", "restart", "pause", "resume", "delete", "cleanup"}

\* C21: when the runtime client is unavailable, every lifecycle operation
\* (create, start, stop, restart, pause, resume, delete, cleanup) reports the
\* runtime-unavailable error, whatever else is wrong with the request, and
\* leaves the ownership map, the start-time map and the port reservations
\* unchanged.
C21_UnavailableRuntimeFirst ==
  [][(~docker_client /\ last'.op \in LifecycleOps)
       => /\ last'.result = "DockerUnavailable"
          /\ user_environments' = user_environments
          /\ environment_start_times' = environment_start_times
          /\ allocated_ports' = allocated_ports]_vars

\* C22: every create call returns a structured (result, status) pair, for any
\* environment type and any tier name, a tier name outside the tier table
\* included: no exception leaves the creation core.
C22_CreateAlwaysReturnsPair ==
  last.op = "create" => last.result # "KeyError"

\* C23: after allocate_port returned p and release_port(p) was called, p is
\* not in the reservation set, and a following allocate_port over the same
\* range can return p again (it does whenever the runtime lists no container
\* on p, p is bindable and the ports of the range below p are not).
C23_ReleasedPortReusable ==
  (last.op = "release_port" /\ last.allocated # 0)
    => /\ last.port \notin allocated_ports
       /\ \A start_port \in {JupyterStart, VscodeStart} :
            last.port \in ScanRange(start_port)
              => allocate_port(allocated_ports, start_port, ScanLen, {},
                               start_port..(last.port - 1)).port = last.port

\* a port of the jupyter range, reserved by allocate_port, has just been
\* released while another port of the range is still reserved
C23_Witness ==
  /\ last.op = "release_port" /\ last.allocated = JupyterStart + 1
  /\ JupyterStart \in allocated_ports
  /\ last.port \notin allocated_ports

\* the number of environments tracked for u
TrackedCount(ue, u) == Len(EnvsOf(ue, u))

\* C24: two create requests for the same user are interleaved between the
\* quota check and the registration. The quota check of a request passes
\* exactly when the tracked count is below the limit, whatever the other
\* request has done short of registering, and a request that passed the check
\* registers its environment whatever the count has become; so both requests
\* can pass before either registers and the tracked count can exceed
\* max_environments (the witness).
C24_CheckThenActRace ==
  [][\A t \in ThreadIds :
       /\ (/\ threads[t].pc = "called" /\ threads'[t] # threads[t]
           /\ threads[t].etype \in DOMAIN ENVIRONMENT_CONFIGS
           /\ threads[t].tier \in DOMAIN RESOURCE_QUOTAS)
            => (threads'[t].pc = "checked"
                  <=> TrackedCount(user_environments, threads[t].uid)
                        < RESOURCE_QUOTAS[threads[t].tier].max_environments)
       /\ (threads[t].pc = "ran" /\ threads'[t] # threads[t])
            => /\ threads'[t].pc = "done" /\ threads'[t].result = "ok"
               /\ TrackedCount(user_environments', threads[t].uid)
                    = TrackedCount(user_environments, threads[t].uid) + 1]_vars

\* both requests named alice and the default tier, alice tracked
\* max_environments - 1 environments, both requests returned success and
\* alice's tracked count is above max_environments
C24_Witness ==
  /\ \A t \in ThreadIds :
       /\ threads[t].pc = "done" /\ threads[t].result = "ok"
       /\ threads[t].uid = "alice" /\ threads[t].tier = "default"
  /\ TrackedCount(user_environments, "alice")
       = RESOURCE_QUOTAS["default"].max_environments - 1 + MaxThreads
  /\ TrackedCount(user_environments, "alice") > RESOURCE_QUOTAS["default"].max_environments

\* C25: two allocate_port calls over the same range are interleaved between
\* the membership test on the reservation set and the insertion into it. The
\* test of a call passes for every port that is not reserved and not listed
\* by the runtime, whatever the other call has done short of inserting, and
\* a call that bound its port inserts and returns it without testing again:
\* the test and the insertion are not one atomic step, and both calls can
\* return the same port (the witness).
C25_TestThenInsertRace ==
  [][\A t \in ThreadIds :
       /\ (/\ threads[t].pc = "scan" /\ threads'[t] # threads[t]
           /\ threads[t].port < threads[t].start + ScanLen)
            => (threads'[t].pc = "tested"
                  <=> threads[t].port \notin allocated_ports \cup UsedDockerPorts)
       /\ (threads[t].pc = "bound" /\ threads'[t] # threads[t])
            => /\ threads'[t].pc = "done" /\ threads'[t].result = "ok"
               /\ threads'[t].port = threads[t].port
               /\ allocated_ports' = allocated_ports \cup {threads[t].port}]_vars

\* both calls scanned the same range and both returned the same port
C25_Witness ==
  /\ \A t \in ThreadIds : threads[t].pc = "done" /\ threads[t].result = "ok"
  /\ \A t, o \in ThreadIds :
       threads[t].start = threads[o].start /\ threads[t].port = threads[o].port
  /\ Len(returned) = MaxThreads

\* the ports of the range from start_port that a scan may take: not reserved,
\* not published by a container the runtime lists, and bindable
Eligible(ap, input) ==
  {p \in ScanRange(input.start_port) :
     p \notin ap /\ p \notin input.used_docker_ports /\ p \notin input.unbindable}

\* C26: allocate_port(start, n) returns the smallest port of [start, start+n)
\* that is not in the reservation set, not bound by a container visible to the
\* runtime and bindable on the host; it adds exactly that port to the
\* reservation set and changes nothing else.
C26_SmallestFreePort ==
  [][(last'.op = "allocate_port" /\ Eligible(allocated_ports, last'.input) # {})
       => /\ last'.result = "ok"
          /\ last'.port \in Eligible(allocated_ports, last'.input)
          /\ \A p \in Eligible(allocated_ports, last'.input) : last'.port <= p
          /\ allocated_ports' = allocated_ports \cup {last'.port}
          /\ UNCHANGED <<docker_client, containers, next_id, user_environments,
                         environment_start_times>>]_vars

\* a scan that passed over a reserved port and an unbindable one and returned
\* the port after them
C26_Witness ==
  /\ last.op = "allocate_port" /\ last.result = "ok"
  /\ last.port = last.input.start_port + 1
  /\ last.input.start_port \in last.input.unbindable
  /\ last.port \in allocated_ports
  /\ Cardinality(allocated_ports) > 1

\* C27: within a single operation each runtime call (create, start, stop,
\* remove, pause, unpause, restart) on a container is attempted at most once;
\* a call that failed is not issued a second time. (The calls of a cleanup go
\* to different containers, one remove each.)
C27_NoSecondAttempt ==
  (last.op \in LifecycleOps \ {"cleanup"})
    => \A i, j \in DOMAIN last.calls : last.calls[i] = last.calls[j] => i = j

\* C28: no operation removes from the reservation set a port that is held by
\* a different, still existing environment: a port is released only by the
\* delete or cleanup of the environment it was reserved for, or by the create
\* that reserved it and failed.
C28_ReleaseOnlyOwnPort ==
  [][\A p \in allocated_ports \ allocated_ports' :
       \A k \in Slots :
         (containers'[k].status # "absent" /\ containers'[k].hostPort = p)
           => k = last'.cid]_vars

\* C29: for an environment made by create for user u, the container id and
\* the container name that create returned are the same environment to the
\* ownership check and to the untracking: user_owns_environment(u, x) answers
\* the same for both, and after a stop or a delete that succeeded, addressed
\* by either one, no list holds the environment's name or id.
C29_IdAndNameAreOneEnvironment ==
  [][/\ \A k \in Slots, u \in Users :
          containers'[k].status # "absent"
            => (user_owns_environment(user_environments', u, Id(k))
                  <=> user_owns_environment(user_environments', u, containers'[k].name))
     /\ (last'.op \in {"stop", "delete"} /\ last'.result = "ok")
          => \A i \in DOMAIN user_environments' :
               /\ Id(last'.cid) \notin Elems(user_environments'[i].envs)
               /\ containers[last'.cid].name \notin Elems(user_environments'[i].envs)]_vars

\* the positions of the list of u that address the container k, by id or by
\* name
EntriesFor(u, k) ==
  {i \in 1..Len(EnvsOf(user_environments, u)) :
     EnvsOf(user_environments, u)[i] \in {Id(k), containers[k].name}}

\* C30: in every reachable state each existing container contributes at most
\* one entry to a user's tracked list, so that the count check_user_quota
\* compares with max_environments is the number of distinct containers
\* tracked for that user.
C30_OneEntryPerContainer ==
  \A u \in Users, k \in Slots :
    containers[k].status # "absent" => Cardinality(EntriesFor(u, k)) <= 1

====
